---- MODULE Spec2Model ----
(***************************************************************************)
(* Agentic Honey-Pot API: the request handler of main.py and the three     *)
(* stages of agent.py (detect_scam, extract_intelligence,                  *)
(* generate_response) on top of an unreliable text-generation provider.    *)
(*                                                                         *)
(* Python strings are TLA+ strings; characters are one-character strings.  *)
(* JSON values are records tagged by their JSON type in field t.           *)
(* A call's result is a record whose field raised says whether the call    *)
(* raised instead of returning.                                            *)
(***************************************************************************)
EXTENDS Naturals, Sequences, FiniteSets, TLC

VARIABLES
    request,            \* the inbound HTTP request: route, x-api-key header, body
    pc,                 \* position of the handler coroutine
    locals,             \* session_id, text, history, metadata (main.py 71-77)
    is_scam,            \* outcome of agent.detect_scam (main.py 86)
    worker,             \* the asyncio.to_thread worker (main.py 99-102)
    intel,              \* the handler's intel local (main.py 99, 106)
    agent_reply,        \* the handler's agent_reply local (main.py 99, 105)
    background_tasks,   \* tasks added with background_tasks.add_task
    response,           \* what the caller receives
    calls,              \* how often the body was parsed and each stage was called
    delivered,          \* payloads send_guvi_callback has posted
    provider,           \* the provider's outcome for each stage's call
    timed_out           \* asyncio.wait_for raised TimeoutError (main.py 103)

vars == <<request, pc, locals, is_scam, worker, intel, agent_reply,
          background_tasks, response, calls, delivered, provider, timed_out>>

(***************************************************************************)
(* Bounds of the model.                                                    *)
(***************************************************************************)
MaxHistory == 1

(***************************************************************************)
(* JSON values.                                                            *)
(***************************************************************************)
Absent == [t |-> "absent", s |-> ""]
Null == [t |-> "null", s |-> ""]
Num == [t |-> "num", s |-> "5"]
Str(s) == [t |-> "str", s |-> s]

\* Python truthiness of a scalar JSON value (a missing key reads as None).
Truthy(v) == v.t \notin {"absent", "null"} /\ ~(v.t = "str" /\ v.s = "")

(***************************************************************************)
(* str methods used by the agent.                                          *)
(***************************************************************************)
UpperCase == "ABCDEFGHIJKLMNOPQRSTUVWXYZ"
LowerCase == "abcdefghijklmnopqrstuvwxyz"
Digits == "0123456789"
Whitespace == {" ", "\n", "\t", "\r"}

Char(s, i) == SubSeq(s, i, i)

\* the characters of a string, as a set
Chars(alphabet) == {Char(alphabet, i) : i \in 1..Len(alphabet)}

UpperChars == Chars(UpperCase)

LowerChar(c) ==
    IF c \in UpperChars
    THEN Char(LowerCase, CHOOSE i \in 1..Len(UpperCase) : Char(UpperCase, i) = c)
    ELSE c

\* s.lower(); low[i] is the lower-cased prefix of length i
lower(s) ==
    LET low[i \in 0..Len(s)] ==
            IF i = 0 THEN "" ELSE low[i - 1] \o LowerChar(Char(s, i))
    IN  low[Len(s)]

\* s.strip(): from the first to the last character that is not whitespace
strip(s) ==
    LET inner == {i \in 1..Len(s) : Char(s, i) \notin Whitespace} IN
    IF inner = {} THEN ""
    ELSE SubSeq(s, CHOOSE i \in inner : \A j \in inner : i <= j,
                   CHOOSE i \in inner : \A j \in inner : j <= i)

\* k in s
contains(k, s) ==
    \E i \in 0..Len(s) : i + Len(k) <= Len(s) /\ SubSeq(s, i + 1, i + Len(k)) = k

(***************************************************************************)
(* The provider call.  An outcome o of one call is                         *)
(*   kind "no_key"       ValueError, no API key configured                 *)
(*   kind "http_error"   requests.post / raise_for_status / json() raised  *)
(*   kind "bad_envelope" a JSON answer without choices[0].message.content  *)
(*   kind "content"      an answer whose content is o.content              *)
(* content_of is llm_response["choices"][0]["message"]["content"] together *)
(* with the call itself: it raises unless the outcome carries a content.   *)
(***************************************************************************)
Raise == [raised |-> TRUE, val |-> Null]
Return(v) == [raised |-> FALSE, val |-> v]

call_llm_api(o) ==
    IF o.kind \in {"no_key", "http_error"} THEN [raised |-> TRUE, ok |-> FALSE]
    ELSE [raised |-> FALSE, ok |-> o.kind = "content"]

content_of(o) ==
    LET r == call_llm_api(o) IN
    IF r.raised \/ ~r.ok THEN Raise ELSE Return(o.content)

(***************************************************************************)
(* detect_scam.  The result is "true", "false" or "raise".                 *)
(***************************************************************************)
keywords == <<"verify", "blocked", "suspended", "upi", "win", "gift", "account">>

\* any(k in message.lower() for k in keywords); message.lower() raises
\* AttributeError when message is not a str.
keyword_fallback(message) ==
    IF message.t # "str" THEN "raise"
    ELSE IF \E low \in {lower(message.s)} :
                \E i \in 1..Len(keywords) : contains(keywords[i], low)
         THEN "true" ELSE "false"

detect_scam(message, history, o) ==
    LET c == content_of(o) IN
    IF ~c.raised /\ c.val.t = "str"
    THEN IF lower(strip(c.val.s)) = "true" THEN "true" ELSE "false"
    ELSE keyword_fallback(message)

(***************************************************************************)
(* generate_response.  A history turn is [sender, text], each a JSON       *)
(* value; msg_item["sender"] and msg_item["text"] raise KeyError on a      *)
(* missing key, and metadata.get raises AttributeError on a non-dict.      *)
(***************************************************************************)
GENERIC_REPLY == "I'm sorry, I don't understand. What do I need to do exactly?"

role_of(msg_item) == IF msg_item.sender = Str("user") THEN "assistant" ELSE "user"

prompt_messages(message, history, metadata) ==
    IF metadata.t # "obj" THEN Raise
    ELSE IF \E i \in 1..Len(history) :
                history[i].sender.t = "absent" \/ history[i].text.t = "absent"
    THEN Raise
    ELSE Return([i \in 1..Len(history) |->
                    [role |-> role_of(history[i]), content |-> history[i].text]]
                \o <<[role |-> "user", content |-> message]>>)

generate_response(message, history, metadata, o) ==
    IF prompt_messages(message, history, metadata).raised THEN Raise
    ELSE LET c == content_of(o) IN
         IF ~c.raised /\ c.val.t = "str"
         THEN Return(Str(strip(c.val.s)))
         ELSE Return(Str(GENERIC_REPLY))

(***************************************************************************)
(* The four patterns of extract_intelligence, matched as re.findall does:  *)
(* scan left to right, take the first match at the leftmost position,      *)
(* resume after it.  A match operator gives the length of the match that   *)
(* starts at position i, or 0.                                             *)
(***************************************************************************)
DigitChars == Chars(Digits)
AlphaChars == Chars(UpperCase \o LowerCase)
WordChars == AlphaChars \cup DigitChars \cup {"_"}
UpiLocalChars == AlphaChars \cup DigitChars \cup {".", "-", "_"}
UrlChars == WordChars \cup {"-", "."}
HexChars == DigitChars \cup Chars("abcdefABCDEF")

IsClass(s, i, class) == i >= 1 /\ i <= Len(s) /\ Char(s, i) \in class

AllClass(s, i, n, class) == \A j \in i..(i + n - 1) : IsClass(s, j, class)

\* the length of the longest run of characters of the class that starts at i
RunLen(s, i, class) ==
    LET run[j \in 1..(Len(s) + 1)] == IF IsClass(s, j, class) THEN 1 + run[j + 1] ELSE 0
    IN  IF i > Len(s) THEN 0 ELSE run[i]

\* \b between the characters i-1 and i
Boundary(s, i) == IsClass(s, i - 1, WordChars) # IsClass(s, i, WordChars)

Largest(S) == IF S = {} THEN 0 ELSE CHOOSE n \in S : \A m \in S : m <= n

StartsWith(s, i, p) == i + Len(p) - 1 <= Len(s) /\ SubSeq(s, i, i + Len(p) - 1) = p

\* bank_pattern  \b\d{9,18}\b
match_bank(s, i) ==
    IF ~Boundary(s, i) THEN 0
    ELSE LET run == RunLen(s, i, DigitChars) IN
         Largest({n \in 9..18 : n <= run /\ Boundary(s, i + n)})

\* upi_pattern  [a-zA-Z0-9.\-_]{2,256}@[a-zA-Z]{2,64}
match_upi(s, i) ==
    LET n == RunLen(s, i, UpiLocalChars)
        m == RunLen(s, i + n + 1, AlphaChars)
    IN  IF n >= 2 /\ n <= 256 /\ StartsWith(s, i + n, "@") /\ m >= 2
        THEN n + 1 + (IF m > 64 THEN 64 ELSE m)
        ELSE 0

\* (?:[-\w.]|(?:%[\da-fA-F]{2}))* from position i, greedily
url_tail(s, i) ==
    LET tail[j \in 1..(Len(s) + 1)] ==
            IF IsClass(s, j, UrlChars) THEN 1 + tail[j + 1]
            ELSE IF StartsWith(s, j, "%") /\ AllClass(s, j + 1, 2, HexChars)
                 THEN 3 + tail[j + 3]
                 ELSE 0
    IN  IF i > Len(s) THEN 0 ELSE tail[i]

\* url_pattern  (https?://(?:[-\w.]|(?:%[\da-fA-F]{2}))+)
match_url(s, i) ==
    LET scheme == IF StartsWith(s, i, "http://") THEN 7
                  ELSE IF StartsWith(s, i, "https://") THEN 8 ELSE 0
        tail == url_tail(s, i + scheme)
    IN  IF scheme > 0 /\ tail > 0 THEN scheme + tail ELSE 0

Opt(s, j, class) == IF IsClass(s, j, class) THEN 1 ELSE 0

\* \(?\d{3}\)?[- ]?\d{3}[- ]?\d{4}\b from position j: the position after the
\* match, or 0
phone_core(s, j) ==
    LET p1 == j + Opt(s, j, {"("})
        p2 == p1 + 3 + Opt(s, p1 + 3, {")"})
        p3 == p2 + Opt(s, p2, {"-", " "})
        p4 == p3 + 3 + Opt(s, p3 + 3, {"-", " "})
    IN  IF /\ AllClass(s, p1, 3, DigitChars)
           /\ AllClass(s, p3, 3, DigitChars)
           /\ AllClass(s, p4, 4, DigitChars)
           /\ Boundary(s, p4 + 4)
        THEN p4 + 4 ELSE 0

\* (?:\+?\d{1,3}[- ]?) with d digits, then the rest: the position after, or 0
phone_prefixed(s, i, d) ==
    LET q == i + Opt(s, i, {"+"})
        r == q + d + Opt(s, q + d, {"-", " "})
    IN  IF AllClass(s, q, d, DigitChars) THEN phone_core(s, r) ELSE 0

\* phone_pattern  \b(?:\+?\d{1,3}[- ]?)?\(?\d{3}\)?[- ]?\d{3}[- ]?\d{4}\b
\* the optional group is tried first, with the most digits first
match_phone(s, i) ==
    LET end == IF phone_prefixed(s, i, 3) > 0 THEN phone_prefixed(s, i, 3)
               ELSE IF phone_prefixed(s, i, 2) > 0 THEN phone_prefixed(s, i, 2)
               ELSE IF phone_prefixed(s, i, 1) > 0 THEN phone_prefixed(s, i, 1)
               ELSE phone_core(s, i)
    IN  IF Boundary(s, i) /\ end > 0 THEN end - i ELSE 0

match(pattern, s, i) ==
    CASE pattern = "bank" -> match_bank(s, i)
      [] pattern = "upi" -> match_upi(s, i)
      [] pattern = "url" -> match_url(s, i)
      [] pattern = "phone" -> match_phone(s, i)

\* set(re.findall(pattern, s)); scan[i] is what the scan finds from position i on
findall(pattern, s) ==
    LET scan[i \in 1..(Len(s) + 1)] ==
            IF i > Len(s) THEN {}
            ELSE LET n == match(pattern, s, i) IN
                 IF n > 0 THEN {SubSeq(s, i, i + n - 1)} \cup scan[i + n]
                 ELSE scan[i + 1]
    IN  scan[1]

\* " ".join(parts)
RECURSIVE join(_)
join(parts) ==
    IF Len(parts) = 0 THEN ""
    ELSE IF Len(parts) = 1 THEN parts[1]
    ELSE parts[1] \o " " \o join(Tail(parts))

(***************************************************************************)
(* extract_intelligence.                                                   *)
(*                                                                         *)
(* The provider's content for this call is a text that holds (or does not  *)
(* hold) a JSON document; it is [t, shape, doc] with shape one of          *)
(*   "object"         {...}                                                *)
(*   "fenced_object"  ```json {...} ``` or prose around one {...}          *)
(*   "array"          valid JSON without braces that is not an object      *)
(*   "two_objects"    {...} text {...}: the span first { to last } is      *)
(*                    not valid JSON                                       *)
(*   "no_json"        text that is not JSON and holds no {...}             *)
(* and doc the object's fields.  A set field of doc is absent, null or a   *)
(* list of items, an item hashable (a string) or not (a list, an object).  *)
(***************************************************************************)
set_keys == <<"bankAccounts", "upiIds", "phishingLinks", "phoneNumbers",
              "suspiciousKeywords">>

NoField == [t |-> "absent", items |-> <<>>]
NullField == [t |-> "null", items |-> <<>>]
ListField(items) == [t |-> "list", items |-> items]
Item(s) == [hashable |-> TRUE, s |-> s]
Unhashable == [hashable |-> FALSE, s |-> ""]

\* lines 139-149: re.search(r'(\{.*\})', content, re.DOTALL), then json.loads
json_loads(content) ==
    CASE content.shape \in {"object", "fenced_object"} ->
            [raised |-> FALSE, isdict |-> TRUE]
      [] content.shape = "array" -> [raised |-> FALSE, isdict |-> FALSE]
      [] OTHER -> [raised |-> TRUE, isdict |-> FALSE]

\* full_text, line 95: m["text"] raises KeyError on a turn without text, and
\* str.join raises TypeError on a text that is not a str
full_text(message, history) ==
    IF message.t # "str" \/ \E i \in 1..Len(history) : history[i].text.t # "str"
    THEN Raise
    ELSE Return(Str(join([i \in 1..Len(history) |-> history[i].text.s]
                         \o <<message.s>>)))

\* lines 103-109
regex_intel(text) ==
    [bankAccounts |-> findall("bank", text),
     upiIds |-> findall("upi", text),
     phishingLinks |-> findall("url", text),
     phoneNumbers |-> findall("phone", text),
     suspiciousKeywords |-> {},
     agentNotes |-> Absent]

\* list(set(intel[k] + llm_intel.get(k, []))) raises TypeError when the value is
\* not a list or holds an unhashable item
mergeable(v) ==
    v.t = "absent" \/ (v.t = "list" /\ \A j \in 1..Len(v.items) : v.items[j].hashable)

merged(old, v) == old \cup {v.items[j].s : j \in 1..Len(v.items)}

\* lines 152-157, statement by statement from the i-th on; each assignment is
\* made in place, so one that raises leaves the earlier ones done
RECURSIVE merge_from(_, _, _)
merge_from(rec, doc, i) ==
    IF i > Len(set_keys)
    THEN [intel |-> [rec EXCEPT !.agentNotes =
                        IF doc.agentNotes.t = "absent"
                        THEN Str("Scammer is engaging.") ELSE doc.agentNotes],
          raised |-> FALSE]
    ELSE LET k == set_keys[i] IN
         IF mergeable(doc[k])
         THEN merge_from([rec EXCEPT ![k] = merged(@, doc[k])], doc, i + 1)
         ELSE [intel |-> rec, raised |-> TRUE]

\* lines 133-157: the try block; raised says the except branch is taken
model_pass(rec, o) ==
    LET c == content_of(o) IN
    IF c.raised \/ c.val.t # "str" THEN [intel |-> rec, raised |-> TRUE]
    ELSE LET j == json_loads(c.val) IN
         IF j.raised THEN [intel |-> rec, raised |-> TRUE]
         ELSE IF ~j.isdict THEN [intel |-> rec, raised |-> FALSE]
         ELSE merge_from(rec, c.val.doc, 1)

\* lines 158-161
except_branch(rec) ==
    IF ~Truthy(rec.agentNotes)
    THEN [rec EXCEPT !.agentNotes =
            Str("Manual extraction used due to API error or malformed LLM response.")]
    ELSE rec

\* lines 163-168 (the five set keys are always in intel)
safety_check(rec) ==
    IF rec.agentNotes.t = "absent"
    THEN [rec EXCEPT !.agentNotes = Str("Engagement ongoing.")]
    ELSE rec

\* lines 133-168 on the record of the pattern pass
augment(rec, o) ==
    LET p == model_pass(rec, o) IN
    safety_check(IF p.raised THEN except_branch(p.intel) ELSE p.intel)

Only(S) == CHOOSE x \in S : TRUE

extract_intelligence(message, history, o) ==
    IF full_text(message, history).raised THEN Raise
    ELSE Return(Only({augment(rec, o) :
                        rec \in {regex_intel(t) :
                                    t \in {full_text(message, history).val.s}}}))

(***************************************************************************)
(* main.py: configuration, fixed replies and the handler's pure parts.     *)
(***************************************************************************)
API_KEY == "prajwal_hackathon_key_2310"

HELLO_REPLY == "Hello! How can I help you today?"
TIMEOUT_REPLY == "I'm not sure I understand. Could you please explain what I need to do?"
CONFUSED_REPLY == "I'm sorry, I'm a bit confused. Can you tell me more?"
TROUBLE_REPLY == "I'm having some trouble connecting. Please try again in a moment."

NoResponse == [code |-> 0, status |-> "", reply |-> Absent, detail |-> ""]
Success(reply) == [code |-> 200, status |-> "success", reply |-> reply, detail |-> ""]
\* an exception that leaves the handler: the framework answers 500
ServerError == [code |-> 500, status |-> "", reply |-> Absent, detail |-> "Internal Server Error"]

\* a variant that compares the header without regard to case
key_matches_caseless(x_api_key) ==
    x_api_key.t = "str" /\ lower(x_api_key.s) = lower(API_KEY)

\* line 62: x_api_key != API_KEY
key_matches(x_api_key) == x_api_key = Str(API_KEY)

\* line 63
forbidden == [code |-> 403, status |-> "", reply |-> Absent, detail |-> "Invalid API Key"]

\* a variant in which the inner handler lets the exception go
on_ai_error_reraised == ServerError

\* lines 132-134
on_ai_error == Success(Str(CONFUSED_REPLY))

\* lines 136-139
on_critical_error == Success(Str(TROUBLE_REPLY))

\* lines 88-89
not_scam_reply == Success(Str(HELLO_REPLY))

\* line 88: the handler goes on to the Extractor and Responder
goes_on(r) == r = "true"

\* lines 105-106
timeout_intel ==
    [bankAccounts |-> {}, upiIds |-> {}, phishingLinks |-> {}, phoneNumbers |-> {},
     suspiciousKeywords |-> {}, agentNotes |-> Str("Processing timed out")]

timeout_result == [intel |-> timeout_intel, reply |-> Str(TIMEOUT_REPLY)]

\* lines 99-102: what wait_for hands back when the worker finished in time
worker_result(w) == [intel |-> w.intel, reply |-> w.reply]

NoIntel ==
    [bankAccounts |-> {}, upiIds |-> {}, phishingLinks |-> {}, phoneNumbers |-> {},
     suspiciousKeywords |-> {}, agentNotes |-> Absent]

NoLocals == [session_id |-> Absent, text |-> Absent, history |-> <<>>,
             metadata |-> [t |-> "absent"]]

\* lines 67-77: request.json() and the field extraction
read_fields(body) ==
    IF body.t # "obj" THEN [raised |-> TRUE, val |-> NoLocals]
    ELSE IF body.message.t \in {"null", "str"} THEN [raised |-> TRUE, val |-> NoLocals]
    ELSE [raised |-> FALSE,
          val |-> [session_id |->
                      IF Truthy(body.sessionId) THEN body.sessionId
                      ELSE IF Truthy(body.sessionID) THEN body.sessionID
                      ELSE Str("unknown_session"),
                   text |->
                      IF body.message.t = "absent" \/ body.message.text.t = "absent"
                      THEN Str("") ELSE body.message.text,
                   history |->
                      IF body.conversationHistory.t = "list"
                      THEN body.conversationHistory.items ELSE <<>>,
                   metadata |->
                      IF body.metadata.t \in {"absent", "null"}
                      THEN [t |-> "obj"] ELSE body.metadata]]

\* lines 109-123
callback_payload(session_id, history, rec) ==
    [sessionId |-> session_id,
     scamDetected |-> TRUE,
     totalMessagesExchanged |-> Len(history) + 1,
     extractedIntelligence |->
        [k \in {set_keys[i] : i \in 1..Len(set_keys)} |-> rec[k]],
     agentNotes |-> IF rec.agentNotes.t = "absent"
                    THEN Str("Scammer engaged.") ELSE rec.agentNotes]

IdleWorker == [pc |-> "idle", intel |-> NoIntel, reply |-> Absent, raised |-> FALSE]

NoOutcome == [kind |-> "none", content |-> Null]
NoCalls == [parse |-> 0, detect |-> 0, extract |-> 0, respond |-> 0]

(***************************************************************************)
(* The handler, one action per step.                                       *)
(***************************************************************************)

\* lines 142-144: /message routes to the same logic
handle_message_v1 ==
    /\ pc = "v1"
    /\ pc' = "root"
    /\ UNCHANGED <<request, locals, is_scam, worker, intel, agent_reply,
                   background_tasks, response, calls, delivered, provider, timed_out>>

\* lines 62-63
check_api_key ==
    /\ pc = "root"
    /\ IF key_matches(request.x_api_key)
       THEN pc' = "body" /\ response' = response
       ELSE pc' = "done" /\ response' = forbidden
    /\ UNCHANGED <<request, locals, is_scam, worker, intel, agent_reply,
                   background_tasks, calls, delivered, provider, timed_out>>

\* lines 67-77, and 136-139 when they raise
read_body ==
    /\ pc = "body"
    /\ calls' = [calls EXCEPT !.parse = @ + 1]
    /\ LET f == read_fields(request.body) IN
       IF f.raised
       THEN pc' = "done" /\ response' = on_critical_error /\ locals' = locals
       ELSE pc' = "detect" /\ response' = response /\ locals' = f.val
    /\ UNCHANGED <<request, is_scam, worker, intel, agent_reply,
                   background_tasks, delivered, provider, timed_out>>

\* lines 86-89, 99 (the worker is started), and 132-134 when detect_scam raises
call_detect_scam(o) ==
    /\ pc = "detect"
    /\ calls' = [calls EXCEPT !.detect = @ + 1]
    /\ provider' = [provider EXCEPT !.detect = o]
    /\ \E r \in {detect_scam(locals.text, locals.history, o)} :
       /\ is_scam' = r
       /\ IF r = "raise"
          THEN pc' = "done" /\ response' = on_ai_error /\ worker' = worker
          ELSE IF goes_on(r)
          THEN pc' = "await" /\ response' = response
               /\ worker' = [worker EXCEPT !.pc = "extract"]
          ELSE pc' = "done" /\ response' = not_scam_reply /\ worker' = worker
    /\ UNCHANGED <<request, locals, intel, agent_reply, background_tasks,
                   delivered, timed_out>>

\* line 100, in the worker thread
worker_extract(o) ==
    /\ worker.pc = "extract"
    /\ calls' = [calls EXCEPT !.extract = @ + 1]
    /\ provider' = [provider EXCEPT !.extract = o]
    /\ \E r \in {extract_intelligence(locals.text, locals.history, o)} :
       IF r.raised
       THEN worker' = [worker EXCEPT !.pc = "done", !.raised = TRUE]
       ELSE worker' = [worker EXCEPT !.pc = "respond", !.intel = r.val]
    /\ UNCHANGED <<request, pc, locals, is_scam, intel, agent_reply,
                   background_tasks, response, delivered, timed_out>>

\* a variant in which the worker stores its results in the handler's locals
worker_respond_shared(o) ==
    /\ worker.pc = "respond"
    /\ calls' = [calls EXCEPT !.respond = @ + 1]
    /\ provider' = [provider EXCEPT !.respond = o]
    /\ \E r \in {generate_response(locals.text, locals.history, locals.metadata, o)} :
       IF r.raised
       THEN /\ worker' = [worker EXCEPT !.pc = "done", !.raised = TRUE]
            /\ UNCHANGED <<intel, agent_reply>>
       ELSE /\ worker' = [worker EXCEPT !.pc = "done", !.reply = r.val]
            /\ intel' = worker.intel
            /\ agent_reply' = r.val
    /\ UNCHANGED <<request, pc, locals, is_scam, background_tasks, response,
                   delivered, timed_out>>

\* line 101, in the worker thread
worker_respond(o) ==
    /\ worker.pc = "respond"
    /\ calls' = [calls EXCEPT !.respond = @ + 1]
    /\ provider' = [provider EXCEPT !.respond = o]
    /\ \E r \in {generate_response(locals.text, locals.history, locals.metadata, o)} :
       IF r.raised
       THEN worker' = [worker EXCEPT !.pc = "done", !.raised = TRUE]
       ELSE worker' = [worker EXCEPT !.pc = "done", !.reply = r.val]
    /\ UNCHANGED <<request, pc, locals, is_scam, intel, agent_reply,
                   background_tasks, response, delivered, timed_out>>

\* lines 99-102: the worker finished within the wait; 132-134 when it raised
wait_for_result ==
    /\ pc = "await"
    /\ worker.pc = "done"
    /\ IF worker.raised
       THEN /\ pc' = "done"
            /\ response' = on_ai_error
            /\ UNCHANGED <<intel, agent_reply>>
       ELSE /\ pc' = "callback"
            /\ intel' = worker_result(worker).intel
            /\ agent_reply' = worker_result(worker).reply
            /\ response' = response
    /\ UNCHANGED <<request, locals, is_scam, worker, background_tasks, calls,
                   delivered, provider, timed_out>>

\* lines 103-106: the wait expired; the worker thread is left running
wait_for_timeout ==
    /\ pc = "await"
    /\ worker.pc # "done"
    /\ timed_out' = TRUE
    /\ intel' = timeout_result.intel
    /\ agent_reply' = timeout_result.reply
    /\ pc' = "callback"
    /\ UNCHANGED <<request, locals, is_scam, worker, background_tasks, response,
                   calls, delivered, provider>>

\* lines 109-130
schedule_callback ==
    /\ pc = "callback"
    /\ background_tasks' = Append(background_tasks,
            [session_id |-> locals.session_id,
             payload |-> callback_payload(locals.session_id, locals.history, intel)])
    /\ response' = Success(agent_reply)
    /\ pc' = "done"
    /\ UNCHANGED <<request, locals, is_scam, worker, intel, agent_reply, calls,
                   delivered, provider, timed_out>>

\* lines 43-53: a background task runs once the response is ready
send_guvi_callback ==
    /\ pc = "done"
    /\ Len(delivered) < Len(background_tasks)
    /\ delivered' = Append(delivered, background_tasks[Len(delivered) + 1].payload)
    /\ UNCHANGED <<request, pc, locals, is_scam, worker, intel, agent_reply,
                   background_tasks, response, calls, provider, timed_out>>

(***************************************************************************)
(* Inputs: requests and provider outcomes.                                 *)
(***************************************************************************)
SeqsUpTo(S, n) == UNION {[1..k -> S] : k \in 0..n}

HttpError == [kind |-> "http_error", content |-> Null]
Failures == {[kind |-> k, content |-> Null] : k \in {"no_key", "http_error", "bad_envelope"}}
Content(c) == [kind |-> "content", content |-> c]

\* x-api-key headers: none, the secret, and two that differ from it
ApiKeys == {Absent, Str(API_KEY), Str("PRAJWAL_HACKATHON_KEY_2310"), Str("")}
Routes == {"/", "/message"}

MessageTexts == {"", "Hello friend", "Your account is blocked",
                 "Send 500 to jobhero@paytm or call +91 9988776655"}
TextValues == {Absent, Null, Num} \cup {Str(s) : s \in MessageTexts}
MessageValues ==
    {[t |-> k, text |-> Absent] : k \in {"absent", "null", "str"}}
    \cup {[t |-> "obj", text |-> v] : v \in TextValues}

Turns == {[sender |-> Str("scammer"), text |-> Str("Open http://scam-bank.com now")],
          [sender |-> Str("user"), text |-> Str("Who is this?")],
          [sender |-> Str("scammer"), text |-> Absent],
          [sender |-> Absent, text |-> Str("A/c 123456789012")]}
HistoryValues ==
    {[t |-> k, items |-> <<>>] : k \in {"absent", "null", "str"}}
    \cup {[t |-> "list", items |-> h] : h \in SeqsUpTo(Turns, MaxHistory)}

MetadataValues == {[t |-> k] : k \in {"absent", "str", "obj"}}

SessionKeys == {<<Absent, Absent>>, <<Str("sess-1"), Absent>>, <<Absent, Str("sess-2")>>}

Body(ids, message, history, metadata) ==
    [t |-> "obj", sessionId |-> ids[1], sessionID |-> ids[2], message |-> message,
     conversationHistory |-> history, metadata |-> metadata]

\* a body that is not JSON, or is JSON but not an object
BadBody(k) == [Body(<<Absent, Absent>>, [t |-> "absent", text |-> Absent],
                    [t |-> "absent", items |-> <<>>], [t |-> "absent"])
               EXCEPT !.t = k]

Bodies ==
    {BadBody("invalid_json"), BadBody("list")}
    \cup {Body(ids, m, h, md) :
            ids \in SessionKeys, m \in MessageValues, h \in HistoryValues,
            md \in MetadataValues}

Requests == [route : Routes, x_api_key : ApiKeys, body : Bodies]

\* provider answers as the handler's specification draws them
DetectAnswers == {HttpError, Content(Str(" True\n")), Content(Str("false"))}
RespondAnswers == {HttpError, Content(Str("Oh no, what should I do?")), Content(Str(""))}

NotesValues == {Absent, Null, Str(""), Str("Urgency; asks for OTP")}
FieldValues == {NoField, NullField, ListField(<<Item("jobhero@paytm"), Item("OTP")>>),
                ListField(<<Unhashable>>)}
Docs == [bankAccounts : FieldValues, upiIds : FieldValues, phishingLinks : FieldValues,
         phoneNumbers : FieldValues, suspiciousKeywords : FieldValues,
         agentNotes : NotesValues]
Doc(f, notes) ==
    [bankAccounts |-> f, upiIds |-> f, phishingLinks |-> f, phoneNumbers |-> f,
     suspiciousKeywords |-> f, agentNotes |-> notes]
Json(shape, doc) == [t |-> "str", s |-> "", shape |-> shape, doc |-> doc]
GoodDoc == Doc(ListField(<<Item("jobhero@paytm"), Item("OTP")>>), Str("Urgency; asks for OTP"))

ExtractAnswers ==
    {HttpError,
     Content(Json("object", GoodDoc)),
     Content(Json("object", [GoodDoc EXCEPT !.upiIds = NullField])),
     Content(Json("object", Doc(NoField, Str(""))))}

\* provider answers as the stages' own specifications draw them
DetectOutcomes ==
    Failures \cup {Content(Null)}
    \cup {Content(Str(s)) : s \in {"true", "false", " True\n", "TRUE", "False ",
                                   "", "yes", "true.", "Yes, this is a scam"}}

RespondOutcomes ==
    Failures \cup {Content(Null)}
    \cup {Content(Str(s)) : s \in {"Oh no, what should I do?", "  Which account?\n",
                                   "", " \n"}}

ExtractOutcomes ==
    Failures \cup {Content(Null)}
    \cup {Content(Json("object", d)) : d \in Docs}
    \cup {Content(Json(k, GoodDoc)) : k \in {"fenced_object", "array", "two_objects",
                                             "no_json"}}

(***************************************************************************)
(* Specifications.                                                         *)
(***************************************************************************)
NoProvider == [detect |-> NoOutcome, extract |-> NoOutcome, respond |-> NoOutcome]

Fresh ==
    /\ locals = NoLocals
    /\ is_scam = "unset"
    /\ worker = IdleWorker
    /\ intel = NoIntel
    /\ agent_reply = Absent
    /\ background_tasks = <<>>
    /\ response = NoResponse
    /\ calls = NoCalls
    /\ delivered = <<>>
    /\ provider = NoProvider
    /\ timed_out = FALSE

Init ==
    /\ request \in Requests
    /\ pc = IF request.route = "/message" THEN "v1" ELSE "root"
    /\ Fresh

Next ==
    \/ handle_message_v1
    \/ check_api_key
    \/ read_body
    \/ \E o \in DetectAnswers : call_detect_scam(o)
    \/ \E o \in ExtractAnswers : worker_extract(o)
    \/ \E o \in RespondAnswers : worker_respond(o)
    \/ wait_for_result
    \/ wait_for_timeout
    \/ schedule_callback
    \/ send_guvi_callback

Spec == Init /\ [][Next]_vars

(***************************************************************************)
(* One specification per stage: the handler stands right before the        *)
(* stage's call, with an authenticated, well-formed request whose fields   *)
(* are drawn from the sets below, and the stage is applied to every        *)
(* provider outcome.                                                       *)
(***************************************************************************)
StageRequest(text, history, metadata) ==
    [route |-> "/", x_api_key |-> Str(API_KEY),
     body |-> Body(<<Str("sess-1"), Absent>>, [t |-> "obj", text |-> text],
                   [t |-> "list", items |-> history], metadata)]

AtStage(text, history, metadata) ==
    /\ request = StageRequest(text, history, metadata)
    /\ locals = read_fields(request.body).val
    /\ intel = NoIntel
    /\ agent_reply = Absent
    /\ background_tasks = <<>>
    /\ response = NoResponse
    /\ delivered = <<>>
    /\ timed_out = FALSE

DetectTexts ==
    {Absent, Null, Num}
    \cup {Str(s) : s \in {"", "Hello friend", "Your account is blocked",
                          "WIN a free GIFT", "Please VERIFY now", "my UPI id",
                          "Darwin was here", "ok"}}

InitDetect ==
    /\ \E v \in DetectTexts : AtStage(v, <<>>, [t |-> "absent"])
    /\ pc = "detect"
    /\ is_scam = "unset"
    /\ worker = IdleWorker
    /\ calls = [NoCalls EXCEPT !.parse = 1]
    /\ provider = NoProvider

NextDetect == \E o \in DetectOutcomes : call_detect_scam(o)

SpecDetect == InitDetect /\ [][NextDetect]_vars

ExtractTexts == {Null, Str("Hello friend"),
                 Str("Send 500 to jobhero@paytm or call +91 9988776655")}

InitExtract ==
    /\ \E v \in ExtractTexts, h \in SeqsUpTo(Turns, MaxHistory) :
            AtStage(v, h, [t |-> "absent"])
    /\ pc = "await"
    /\ is_scam = "true"
    /\ worker = [IdleWorker EXCEPT !.pc = "extract"]
    /\ calls = [NoCalls EXCEPT !.parse = 1, !.detect = 1]
    /\ provider = [NoProvider EXCEPT !.detect = Content(Str("true"))]

NextExtract == \E o \in ExtractOutcomes : worker_extract(o)

SpecExtract == InitExtract /\ [][NextExtract]_vars

InitRespond ==
    /\ \E s \in MessageTexts, h \in SeqsUpTo(Turns, MaxHistory),
          md \in {[t |-> "absent"], [t |-> "str"]} :
            /\ AtStage(Str(s), h, md)
            /\ ~extract_intelligence(Str(s), h, HttpError).raised
            /\ worker = [IdleWorker EXCEPT
                            !.pc = "respond",
                            !.intel = extract_intelligence(Str(s), h, HttpError).val]
    /\ pc = "await"
    /\ is_scam = "true"
    /\ calls = [NoCalls EXCEPT !.parse = 1, !.detect = 1, !.extract = 1]
    /\ provider = [NoProvider EXCEPT !.detect = Content(Str("true")),
                                     !.extract = HttpError]

NextRespond == \E o \in RespondOutcomes : worker_respond(o)

SpecRespond == InitRespond /\ [][NextRespond]_vars

(***************************************************************************)
(* Properties.                                                             *)
(***************************************************************************)
Authenticated == request.x_api_key = Str(API_KEY)

SetKeys == {"bankAccounts", "upiIds", "phishingLinks", "phoneNumbers",
            "suspiciousKeywords"}

\* C1: once the API-key check has passed, whatever the body, the provider
\* outcomes, a timeout or an internal exception, the caller gets HTTP 200 with
\* {status: "success", reply: <string>}; no other status is ever produced.
C1_SuccessShapedReply ==
    Authenticated =>
        /\ response.code \in {0, 200}
        /\ pc = "done" =>
            /\ response.code = 200
            /\ response.status = "success"
            /\ response.reply.t = "str"

\* an authenticated request whose worker raised has been answered
C1_Witness ==
    /\ Authenticated
    /\ pc = "done"
    /\ worker.raised
    /\ response.code = 200
    /\ response.reply = Str(CONFUSED_REPLY)

\* the transcript extract_intelligence worked on
Transcript == full_text(locals.text, locals.history).val.s

\* C2: when the model-augmented pass of extract_intelligence fails (provider
\* error, no parsable JSON object, or an error part-way through the merge), each
\* of the five set fields of the returned record is the pattern-only result.
C2_FailedPassLeavesPatternResult ==
    (worker.pc = "respond" /\ model_pass(regex_intel(Transcript), provider.extract).raised)
        => \A k \in SetKeys : worker.intel[k] = regex_intel(Transcript)[k]

\* the model pass of the last extract_intelligence call went through with an
\* object, and its agentNotes is a non-empty string
ModelNotesUsable ==
    /\ ~model_pass(NoIntel, provider.extract).raised
    /\ json_loads(provider.extract.content).isdict
    /\ provider.extract.content.doc.agentNotes.t = "str"
    /\ provider.extract.content.doc.agentNotes.s # ""

\* C3: every record extract_intelligence returns has a non-empty string as
\* agentNotes: the model's when that is present and non-empty, a fixed default
\* otherwise.
C3_AgentNotesNonEmpty ==
    worker.pc = "respond" =>
        /\ worker.intel.agentNotes.t = "str"
        /\ worker.intel.agentNotes.s # ""
        /\ ModelNotesUsable =>
              worker.intel.agentNotes = provider.extract.content.doc.agentNotes

KeywordSet == {"verify", "blocked", "suspended", "upi", "win", "gift", "account"}

\* C4: when the provider call fails, detect_scam never raises, whatever message
\* the handler passes (a null or non-string text included), and returns true
\* exactly when the lower-cased message contains a keyword of the fixed set.
C4_FallbackNeverRaises ==
    (is_scam # "unset" /\ provider.detect.kind # "content") =>
        /\ is_scam # "raise"
        /\ is_scam = "true" <=>
              /\ locals.text.t = "str"
              /\ \E k \in KeywordSet : contains(k, lower(locals.text.s))

\* C5: when the provider answers with a text that, trimmed and lower-cased, is
\* neither "true" nor "false", detect_scam gives the keyword-match result for
\* the message (stated here for the messages that are strings).
C5_AmbiguousAnswerFallsBack ==
    (/\ is_scam # "unset"
     /\ locals.text.t = "str"
     /\ provider.detect.kind = "content"
     /\ provider.detect.content.t = "str"
     /\ lower(strip(provider.detect.content.s)) \notin {"true", "false"})
        => is_scam = keyword_fallback(locals.text)

TimedOutIntel(rec) ==
    /\ \A k \in SetKeys : rec[k] = {}
    /\ rec.agentNotes = Str("Processing timed out")

\* C6: when the wait for the Extractor and Responder expires, the reply is the
\* fixed timeout reply and the intelligence of the callback payload is empty
\* with agentNotes "Processing timed out"; this stays so in every later state,
\* the states after the abandoned worker has finished included.
C6_TimeoutDefaults ==
    timed_out =>
        /\ agent_reply = Str(TIMEOUT_REPLY)
        /\ TimedOutIntel(intel)
        /\ pc = "done" =>
            /\ response = Success(Str(TIMEOUT_REPLY))
            /\ Len(background_tasks) = 1
            /\ \A k \in SetKeys : background_tasks[1].payload.extractedIntelligence[k] = {}
            /\ background_tasks[1].payload.agentNotes = Str("Processing timed out")
        /\ \A i \in 1..Len(delivered) : delivered[i] = background_tasks[i].payload

\* the wait expired, the abandoned worker went on to produce other results, and
\* the callback was posted
C6_Witness ==
    /\ timed_out
    /\ pc = "done"
    /\ worker.pc = "done"
    /\ ~worker.raised
    /\ worker.reply # Str(TIMEOUT_REPLY)
    /\ worker.intel.upiIds # {}
    /\ Len(delivered) = 1

\* C7: whatever the provider does, generate_response returns a non-empty
\* string.
C7_ReplyNonEmpty ==
    (worker.pc = "done" /\ ~worker.raised) =>
        /\ worker.reply.t = "str"
        /\ worker.reply.s # ""

\* C8: a request whose x-api-key header is absent or is not exactly the secret
\* is answered with a non-200 status before any processing, on both routes:
\* the body is not parsed, no stage is called, no callback is scheduled.
C8_RejectedBeforeProcessing ==
    ~Authenticated =>
        /\ pc \in {"v1", "root", "done"}
        /\ calls = NoCalls
        /\ worker = IdleWorker
        /\ background_tasks = <<>>
        /\ delivered = <<>>
        /\ response.code \in {0, 403}
        /\ pc = "done" => response.code = 403

\* a header that differs from the secret only in case, rejected on /message
C8_Witness ==
    /\ request.route = "/message"
    /\ request.x_api_key = Str("PRAJWAL_HACKATHON_KEY_2310")
    /\ pc = "done"
    /\ response.code = 403

\* the Extractor, the Responder and the callback come only after detect_scam
\* returned true
OnlyAfterTrue ==
    (calls.extract > 0 \/ calls.respond > 0 \/ worker # IdleWorker
        \/ background_tasks # <<>>)
        => (is_scam = "true" /\ calls.detect = 1)

\* detect_scam returned false: the fixed reply, and nothing else was called
FalseShortCircuits ==
    is_scam = "false" =>
        /\ pc = "done"
        /\ response = Success(Str(HELLO_REPLY))
        /\ calls.extract = 0
        /\ calls.respond = 0
        /\ worker = IdleWorker
        /\ background_tasks = <<>>

\* C9: within one authenticated request detect_scam is invoked first and
\* exactly once; the other stages and the callback come only after it returned
\* true; when it returns false the handler answers its fixed reply.  Stated
\* for the requests whose body is a JSON object.
C9_DetectExactlyOnce ==
    (Authenticated /\ request.body.t = "obj") =>
        /\ calls.detect <= 1
        /\ pc = "done" => calls.detect = 1
        /\ OnlyAfterTrue
        /\ FalseShortCircuits

\* C10: every authenticated request for which detect_scam returned true has
\* scheduled exactly one callback when the handler returns, whatever the
\* Extractor and Responder did, with scamDetected = true and
\* totalMessagesExchanged = |history| + 1.
C10_ScamAlwaysReported ==
    (Authenticated /\ is_scam = "true" /\ pc = "done") =>
        /\ Len(background_tasks) = 1
        /\ background_tasks[1].payload.scamDetected
        /\ background_tasks[1].payload.totalMessagesExchanged = Len(locals.history) + 1

====
